---- MODULE Spec2Model ----
(***************************************************************************)
(* The landing view of the RAG Platform frontend (frontend/src/App.tsx).   *)
(*                                                                         *)
(* App is a function component without props, hooks or event handlers.     *)
(* Its output is a tree of five regions; the only computed value in it is  *)
(* new Date().toLocaleString(), evaluated while the tree is built.         *)
(*                                                                         *)
(* The state is what a host page can observe: the displayed tree, the      *)
(* connections and timers the component has opened, and the environment    *)
(* the render reads (the wall clock in milliseconds and the host's offset  *)
(* from UTC, which toLocaleString applies).  Two renders are remembered    *)
(* (the latest and the one before it) so that properties relating          *)
(* consecutive renders are state predicates.                               *)
(*                                                                         *)
(* Text is modelled without the emoji and the copyright sign of the        *)
(* source; class names are presentation only and are left out.             *)
(***************************************************************************)
EXTENDS Integers, Sequences, FiniteSets

VARIABLES
    clock,      \* wall clock: milliseconds since the epoch (what new Date() reads)
    tzOffset,   \* host offset from UTC in milliseconds (what toLocaleString applies)
    ticks,      \* number of clock advances so far (bounds the exploration)
    dom,        \* the displayed tree: <<>> before the first render
    network,    \* requests and connections opened by the component
    timers,     \* timers, intervals and async tasks started by the component
    renderedAt, \* clock and offset read by the latest render, or NoRender
    prevDom,    \* the tree the render before the latest one produced, or <<>>
    prevAt,     \* clock and offset read by the render before the latest, or NoRender
    lastClick   \* label of the button clicked most recently, or NoClick

vars == <<clock, tzOffset, ticks, dom, network, timers, renderedAt, prevDom, prevAt,
          lastClick>>

---------------------------------------------------------------------------
(* Bounds of the exploration *)

MaxTicks == 3

StartClocks == {0, 43199500}

TickSteps == {1, 500, 1000, 3600000}

TzOffsets == {0, 3600000}

---------------------------------------------------------------------------
(* Date.prototype.toLocaleString, en-US: "M/D/YYYY, h:mm:ss AM" *)

MsPerSecond == 1000

SecondsPerMinute == 60

MinutesPerHour == 60

HoursPerDay == 24

HoursPerPeriod == 12

NoRender == [clock |-> -1, tz |-> -1]

NoClick == "none"

\* The local time in whole seconds: the milliseconds are dropped.
LocalSeconds(ms, offset) == (ms + offset) \div MsPerSecond

Hour12(h) == IF h % HoursPerPeriod = 0 THEN HoursPerPeriod ELSE h % HoursPerPeriod

\* A timestamp written into the source as a literal.
toLocaleString_Literal(ms, offset) ==
    [ date |-> 0, hour |-> 12, minute |-> 0, second |-> 0, period |-> "AM" ]

\* The date is kept as the day number since the epoch, which stands for the
\* M/D/YYYY triple (one triple per day).
toLocaleString(ms, offset) ==
    LET s == LocalSeconds(ms, offset)
        h == (s \div (SecondsPerMinute * MinutesPerHour)) % HoursPerDay
    IN  [ date   |-> s \div (SecondsPerMinute * MinutesPerHour * HoursPerDay),
          hour   |-> Hour12(h),
          minute |-> (s \div SecondsPerMinute) % MinutesPerHour,
          second |-> s % SecondsPerMinute,
          period |-> IF h < HoursPerPeriod THEN "AM" ELSE "PM" ]

---------------------------------------------------------------------------
(* The tree App returns *)

\* The navigation bar with the call to action moved to the front.
Navigation_Reordered ==
    [ region  |-> "navigation",
      tag     |-> "nav",
      heading |-> "RAG Platform",
      buttons |-> <<"Get Started", "Features", "About">> ]

Navigation ==
    [ region  |-> "navigation",
      tag     |-> "nav",
      heading |-> "RAG Platform",
      buttons |-> <<"Features", "About", "Get Started">> ]

\* The hero heading greeting by the time of day.
HeroSection_Greeting ==
    [ region  |-> "hero",
      tag     |-> "div",
      heading |-> IF toLocaleString(clock, tzOffset).period = "AM"
                  THEN "Good morning" ELSE "Good afternoon",
      text    |-> "Upload lectures, PDFs, videos, and more to create intelligent AI assistants that understand your content deeply. Perfect for students, researchers, and professionals.",
      buttons |-> <<"Try Demo", "Learn More">> ]

HeroSection ==
    [ region  |-> "hero",
      tag     |-> "div",
      heading |-> "Transform Your Documents into AI Agents",
      text    |-> "Upload lectures, PDFs, videos, and more to create intelligent AI assistants that understand your content deeply. Perfect for students, researchers, and professionals.",
      buttons |-> <<"Try Demo", "Learn More">> ]

\* The feature grid with the third card's text left empty.
FeatureCards_EmptyCard ==
    [ region  |-> "features",
      tag     |-> "div",
      heading |-> "Key Features",
      cards   |-> << [ title |-> "Multi-Format Support",
                       text  |-> "Process PDFs, videos, PowerPoints, Word docs, and more with our advanced parsers." ],
                     [ title |-> "Intelligent RAG",
                       text  |-> "State-of-the-art retrieval augmented generation for accurate, contextual responses." ],
                     [ title |-> "Real-time Processing",
                       text  |-> "" ] >> ]

FeatureCards ==
    [ region  |-> "features",
      tag     |-> "div",
      heading |-> "Key Features",
      cards   |-> << [ title |-> "Multi-Format Support",
                       text  |-> "Process PDFs, videos, PowerPoints, Word docs, and more with our advanced parsers." ],
                     [ title |-> "Intelligent RAG",
                       text  |-> "State-of-the-art retrieval augmented generation for accurate, contextual responses." ],
                     [ title |-> "Real-time Processing",
                       text  |-> "Watch your documents transform into AI agents with live progress updates." ] >> ]

\* The banner reporting a failure while no backend has answered.
StatusCheck_Health(now) ==
    [ region  |-> "status",
      tag     |-> "div",
      message |-> IF network = {}
                  THEN "Backend is not reachable."
                  ELSE "Frontend is working! React + Tailwind CSS are properly configured.",
      time    |-> now,
      suffix  |-> " - Development Server Running" ]

StatusCheck(now) ==
    [ region  |-> "status",
      tag     |-> "div",
      message |-> "Frontend is working! React + Tailwind CSS are properly configured.",
      time    |-> now,
      suffix  |-> " - Development Server Running" ]

Footer ==
    [ region  |-> "footer",
      tag     |-> "footer",
      text    |-> "2024 RAG Platform. Built with React, FastAPI, and LangChain." ]

\* App with the footer left out of the tree.
App_NoFooter(ms, offset) ==
    << Navigation, HeroSection, FeatureCards,
       StatusCheck(toLocaleString(ms, offset)) >>

\* App with the status banner placed below the footer in the afternoon.
App_StatusLast(ms, offset) ==
    IF toLocaleString(ms, offset).period = "PM"
    THEN << Navigation, HeroSection, FeatureCards, Footer,
            StatusCheck(toLocaleString(ms, offset)) >>
    ELSE << Navigation, HeroSection, FeatureCards,
            StatusCheck(toLocaleString(ms, offset)), Footer >>

\* App(): the children of the root div, top to bottom.  ms and offset are
\* what new Date().toLocaleString() reads while the tree is built.
App(ms, offset) ==
    << Navigation, HeroSection, FeatureCards,
       StatusCheck(toLocaleString(ms, offset)), Footer >>

\* App keeping the timestamp live with an interval timer.
AppEffects_Interval == {[kind |-> "interval"]}

\* App asking the backend for its health when it renders.
AppEffects_Fetch == {[kind |-> "fetch"]}

\* The effects App registers: it calls no hook (no useEffect, no useState),
\* opens no connection and attaches no event handler.
AppEffects == {}

\* A call to action that opens the sign-up form through a state update.
OnClick_GetStarted(button) == IF button = "Get Started" THEN "setState" ELSE "none"

\* The onClick handler of each button: no button element carries one.
OnClick(button) == "none"

---------------------------------------------------------------------------
(* Operations *)

Init ==
    /\ clock \in StartClocks
    /\ tzOffset \in TzOffsets
    /\ ticks = 0
    /\ dom = <<>>
    /\ network = {}
    /\ timers = {}
    /\ renderedAt = NoRender
    /\ prevDom = <<>>
    /\ prevAt = NoRender
    /\ lastClick = NoClick

\* One render pass: App() runs once, synchronously, reading the clock value
\* ms under the offset, and its tree replaces what is displayed.  The effects
\* App registers are started with it.
Commit(ms, offset) ==
    /\ dom' = App(ms, offset)
    /\ network' = network \cup {e \in AppEffects : e.kind \in {"fetch", "websocket"}}
    /\ timers' = timers \cup {e \in AppEffects : e.kind \in {"timer", "interval", "async"}}
    /\ renderedAt' = [clock |-> ms, tz |-> offset]
    /\ prevDom' = dom
    /\ prevAt' = renderedAt

\* The host renders (or re-renders) the root.
Render ==
    /\ Commit(clock, tzOffset)
    /\ UNCHANGED <<clock, tzOffset, ticks, lastClick>>

\* Environment: the wall clock advances.  A timer the component has started
\* comes due and its callback re-renders; with no timer nothing else happens.
Tick ==
    /\ ticks < MaxTicks
    /\ \E d \in TickSteps : clock' = clock + d
    /\ ticks' = ticks + 1
    /\ tzOffset' = tzOffset
    /\ lastClick' = lastClick
    /\ IF timers = {}
         THEN UNCHANGED <<dom, network, timers, renderedAt, prevDom, prevAt>>
         ELSE Commit(clock', tzOffset)

\* Environment: the host's offset from UTC changes (a daylight-saving
\* transition, or the system time zone is changed).
TzChange ==
    /\ \E o \in TzOffsets \ {tzOffset} : tzOffset' = o
    /\ UNCHANGED <<clock, ticks, dom, network, timers, renderedAt, prevDom, prevAt,
                   lastClick>>

\* The labels of the buttons a tree displays (the navigation bar and the hero
\* banner are the regions that hold buttons).
Buttons(tree) ==
    UNION { {tree[i].buttons[k] : k \in 1..Len(tree[i].buttons)} :
              i \in {j \in DOMAIN tree : tree[j].region \in {"navigation", "hero"}} }

\* The user clicks a displayed button and its onClick handler runs: a handler
\* that updates state re-renders, one that calls the backend opens a request,
\* and a button without a handler does nothing.
Click ==
    /\ \E b \in Buttons(dom) :
          /\ lastClick' = b
          /\ IF OnClick(b) = "setState"
               THEN Commit(clock, tzOffset)
               ELSE IF OnClick(b) = "fetch"
               THEN /\ network' = network \cup {[kind |-> "fetch"]}
                    /\ UNCHANGED <<dom, timers, renderedAt, prevDom, prevAt>>
               ELSE UNCHANGED <<dom, network, timers, renderedAt, prevDom, prevAt>>
    /\ UNCHANGED <<clock, tzOffset, ticks>>

Next == Render \/ Tick \/ TzChange \/ Click

Spec == Init /\ [][Next]_vars

---------------------------------------------------------------------------
(* Reading the displayed tree *)

Mounted == dom # <<>>

Rerendered == prevDom # <<>>

Indices(tree, r) == {i \in DOMAIN tree : tree[i].region = r}

Count(tree, r) == Cardinality(Indices(tree, r))

RegionOrder(tree) == [i \in 1..Len(tree) |-> tree[i].region]

StatusTimes(tree) == {tree[i].time : i \in Indices(tree, "status")}

\* The second a displayed timestamp denotes, read back from its fields.
Hour24(t) == (t.hour % HoursPerPeriod) + (IF t.period = "PM" THEN HoursPerPeriod ELSE 0)

ParseSeconds(t) ==
    ((t.date * HoursPerDay + Hour24(t)) * MinutesPerHour + t.minute) * SecondsPerMinute
        + t.second

---------------------------------------------------------------------------
(* Claims *)

\* C1: every render produces exactly one navigation region, one hero region,
\* one feature grid holding exactly three cards, one status banner and one
\* footer, and no other region.
C1_ExactlyOneOfEachRegion ==
    Mounted =>
        /\ Len(dom) = 5
        /\ \A r \in {"navigation", "hero", "features", "status", "footer"} :
              Count(dom, r) = 1
        /\ \A i \in Indices(dom, "features") : Len(dom[i].cards) = 3
        /\ \A i \in Indices(dom, "navigation") : dom[i].tag = "nav"
        /\ \A i \in Indices(dom, "footer") : dom[i].tag = "footer"

\* C1 witness: the view has been rendered and re-rendered at a later time.
C1_Witness ==
    /\ Rerendered
    /\ renderedAt.clock > prevAt.clock
    /\ Count(dom, "features") = 1
    /\ Count(prevDom, "features") = 1

\* C2: in every render the regions appear top to bottom as navigation, hero,
\* feature grid, status banner, footer, and a re-render at any time keeps
\* that order.
C2_FixedRegionOrder ==
    /\ Mounted =>
          RegionOrder(dom) = <<"navigation", "hero", "features", "status", "footer">>
    /\ Rerendered => RegionOrder(dom) = RegionOrder(prevDom)

\* C2 witness: one render in the morning, the next in the afternoon.
C2_Witness ==
    /\ Rerendered
    /\ \E a \in StatusTimes(prevDom), b \in StatusTimes(dom) :
          a.period = "AM" /\ b.period = "PM"

\* The first half of C3: the second the banner shows is the second of the
\* local time read by the render.
ShowsRenderTime ==
    Mounted =>
        /\ StatusTimes(dom) # {}
        /\ \A t \in StatusTimes(dom) :
              /\ ParseSeconds(t) * MsPerSecond <= renderedAt.clock + renderedAt.tz
              /\ renderedAt.clock + renderedAt.tz < (ParseSeconds(t) + 1) * MsPerSecond

\* C3 as stated: the banner shows the time read by the render, and a render
\* at any later clock time shows a different timestamp than the one before.
C3_AnyLaterRenderDiffers ==
    /\ ShowsRenderTime
    /\ (Rerendered /\ renderedAt.clock > prevAt.clock) =>
          StatusTimes(dom) \cap StatusTimes(prevDom) = {}

\* C3 amended: the banner shows the time read by the render (to the second),
\* and a render at least one second later under the same offset from UTC
\* shows a different timestamp than the one before.
C3_LaterSecondRenderDiffers ==
    /\ ShowsRenderTime
    /\ ( /\ Rerendered
         /\ renderedAt.tz = prevAt.tz
         /\ renderedAt.clock >= prevAt.clock + MsPerSecond ) =>
          StatusTimes(dom) \cap StatusTimes(prevDom) = {}

\* C3 witness: two renders a second or more apart, under one offset, showing
\* different timestamps.
C3_Witness ==
    /\ Rerendered
    /\ renderedAt.tz = prevAt.tz
    /\ renderedAt.clock >= prevAt.clock + MsPerSecond
    /\ StatusTimes(dom) # StatusTimes(prevDom)
    /\ StatusTimes(dom) # {}

\* C4: between two renders the displayed timestamp does not change.  The
\* component starts no timer, the banner shows the time read by the latest
\* render, and a step that advances the clock leaves the display as it was.
C4_TimestampFrozenBetweenRenders ==
    /\ [](timers = {})
    /\ [](Mounted =>
            StatusTimes(dom) = {toLocaleString(renderedAt.clock, renderedAt.tz)})
    /\ [][clock' # clock => dom' = dom]_vars

\* C4 witness: the clock has moved into a later second than the one displayed.
C4_Witness ==
    /\ Mounted
    /\ clock >= renderedAt.clock + MsPerSecond
    /\ tzOffset = renderedAt.tz
    /\ toLocaleString(clock, tzOffset) \notin StatusTimes(dom)

\* C5 as stated: a render opens no connection and starts no timer or task,
\* and it reads nothing but the wall clock: while the clock still has the
\* value the latest render read, rendering again would reproduce the display.
C5_ReadsOnlyTheClock ==
    /\ network = {}
    /\ timers = {}
    /\ (Mounted /\ clock = renderedAt.clock) => dom = App(clock, tzOffset)

\* C5 amended: a render opens no connection and starts no timer or task, and
\* it reads nothing but the wall clock and the host's offset from UTC: while
\* both still have the values the latest render read, rendering again would
\* reproduce the display.
C5_ReadsOnlyClockAndTimeZone ==
    /\ network = {}
    /\ timers = {}
    /\ (Mounted /\ clock = renderedAt.clock /\ tzOffset = renderedAt.tz) =>
          dom = App(clock, tzOffset)

\* C5 witness: the view is displayed, nothing has been opened or scheduled,
\* and the clock and the offset are as the render read them.
C5_Witness ==
    /\ Rerendered
    /\ clock = renderedAt.clock
    /\ tzOffset = renderedAt.tz
    /\ ticks > 0
    /\ network = {}
    /\ timers = {}

\* The tree with the timestamp text blanked.
WithoutTime(tree) ==
    [i \in 1..Len(tree) |->
        IF tree[i].region = "status" THEN [tree[i] EXCEPT !.time = "blank"] ELSE tree[i]]

\* C6 as stated: two renders differ at most in the timestamp text, and two
\* renders that read the same clock value produce the same tree.
C6_SameClockSameOutput ==
    /\ Rerendered => WithoutTime(dom) = WithoutTime(prevDom)
    /\ (Rerendered /\ renderedAt.clock = prevAt.clock) => dom = prevDom

\* C6 amended: two renders differ at most in the timestamp text, and two
\* renders that read the same clock value under the same offset from UTC
\* produce the same tree.
C6_SameClockAndZoneSameOutput ==
    /\ Rerendered => WithoutTime(dom) = WithoutTime(prevDom)
    /\ (Rerendered /\ renderedAt = prevAt) => dom = prevDom

\* C6 witness: one pair of renders that read the same clock and offset, seen
\* after the clock has moved (so the pair before it differed in time).
C6_Witness ==
    /\ Rerendered
    /\ renderedAt = prevAt
    /\ dom = prevDom
    /\ ticks > 0

\* A timestamp as toLocaleString writes one.
WellFormedTime(t) ==
    /\ t.date >= 0
    /\ t.hour \in 1..HoursPerPeriod
    /\ t.minute \in 0..(MinutesPerHour - 1)
    /\ t.second \in 0..(SecondsPerMinute - 1)
    /\ t.period \in {"AM", "PM"}

\* C7: a render has no error path.  Once a render has run, the whole tree is
\* displayed: five regions, each with all of its content, the timestamp a
\* well-formed date and time; there is no state with a render begun and the
\* tree missing or partial.
C7_RenderAlwaysComplete ==
    /\ (renderedAt # NoRender) <=> Mounted
    /\ Mounted =>
          /\ Len(dom) = 5
          /\ \A i \in Indices(dom, "navigation") :
                dom[i].heading # "" /\ Len(dom[i].buttons) = 3
          /\ \A i \in Indices(dom, "hero") :
                dom[i].heading # "" /\ dom[i].text # "" /\ Len(dom[i].buttons) = 2
          /\ \A i \in Indices(dom, "features") :
                /\ dom[i].heading # ""
                /\ \A c \in 1..Len(dom[i].cards) :
                      dom[i].cards[c].title # "" /\ dom[i].cards[c].text # ""
          /\ \A i \in Indices(dom, "status") :
                dom[i].message # "" /\ dom[i].suffix # "" /\ WellFormedTime(dom[i].time)
          /\ \A i \in Indices(dom, "footer") : dom[i].text # ""
          /\ \A i \in DOMAIN dom :
                dom[i].region \in {"navigation", "hero", "features", "status", "footer"}

\* C7 witness: a render exactly at noon, where the hour and the period of the
\* formatted time both turn over.
C7_Witness ==
    /\ Mounted
    /\ \E t \in StatusTimes(dom) :
          t.hour = HoursPerPeriod /\ t.minute = 0 /\ t.second = 0 /\ t.period = "PM"

\* C8: once the frontend is displayed it holds a WebSocket connection to the
\* server, on which progress updates arrive.
C8_WebSocketOpen ==
    Mounted => \E c \in network : c.kind = "websocket"

\* C9: every render shows the navigation buttons Features, About, Get Started
\* and the feature cards Multi-Format Support, Intelligent RAG, Real-time
\* Processing, each in that order.
C9_FixedNavAndFeatures ==
    Mounted =>
        /\ Indices(dom, "navigation") # {}
        /\ Indices(dom, "features") # {}
        /\ \A i \in Indices(dom, "navigation") :
              dom[i].buttons = <<"Features", "About", "Get Started">>
        /\ \A i \in Indices(dom, "features") :
              [c \in 1..Len(dom[i].cards) |-> dom[i].cards[c].title]
                  = <<"Multi-Format Support", "Intelligent RAG", "Real-time Processing">>

\* C9 witness: renders under both offsets, the later one after the clock moved.
C9_Witness ==
    /\ Rerendered
    /\ renderedAt.tz # prevAt.tz
    /\ renderedAt.clock > prevAt.clock
    /\ Indices(dom, "navigation") # {}

\* C10: the status banner shows the success message and the suffix
\* "Development Server Running" in every render, whether or not any server
\* has been contacted.
C10_StatusAlwaysSuccess ==
    Mounted =>
        /\ Indices(dom, "status") # {}
        /\ \A i \in Indices(dom, "status") :
              /\ dom[i].message
                    = "Frontend is working! React + Tailwind CSS are properly configured."
              /\ dom[i].suffix = " - Development Server Running"

\* C10 witness: the banner is displayed though no server was ever contacted,
\* well after the render that produced it.
C10_Witness ==
    /\ Mounted
    /\ Indices(dom, "status") # {}
    /\ network = {}
    /\ ticks > 0
    /\ clock > renderedAt.clock

\* C11: clicks are inert.  A step in which a button is clicked changes nothing
\* else: no re-render, no request, no timer, and the display stays what the
\* latest render produced, timestamp included, whatever the clock shows by then.
C11_ClicksAreInert ==
    /\ [](network = {} /\ timers = {})
    /\ [](Mounted => dom = App(renderedAt.clock, renderedAt.tz))
    /\ [][lastClick' # lastClick =>
            UNCHANGED <<clock, tzOffset, ticks, dom, network, timers,
                        renderedAt, prevDom, prevAt>>]_vars

\* C11 witness: a hero button was clicked after the clock moved into a later
\* second than the one displayed, and the display is still the render's.
C11_Witness ==
    /\ lastClick = "Learn More"
    /\ Mounted
    /\ clock >= renderedAt.clock + MsPerSecond
    /\ dom = App(renderedAt.clock, renderedAt.tz)
    /\ dom # App(clock, tzOffset)

====
